---- MODULE Spec2Model ----
(***************************************************************************)
(* Model of the Library class of Library_Management_System.py: the book    *)
(* and member registries, the borrow/return transitions of Member, the     *)
(* update/remove guards and the display, search and history queries.       *)
(* Text is modelled as a sequence of one-character strings so that the     *)
(* name pattern and the search are computed, not assumed.  A Python        *)
(* Optional argument is <<>> for None and <<v>> for the value v.  A book   *)
(* reference held by a member is the entity_id of the Book object; it is   *)
(* resolved through the book registry.                                     *)
(***************************************************************************)
EXTENDS Integers, Sequences, FiniteSets, TLC

VARIABLES
  books,       \* Library.books: the Book records in insertion order
  members,     \* Library.members: the Member records in insertion order
  last,        \* the most recent call: method, arguments, returned message
  configured,  \* per book id, the copies given to add_book or stored by the
               \* last successful update_book(copies=...); 0 if unregistered
  pc,          \* position in a sequence issue_book(m, b), return_book(m, b),
               \* return_book(m, b) of consecutive calls: "idle", "issued",
               \* "returned", "returned2"
  pre,         \* what the issue_book call of that sequence found
  shown        \* the list the most recent call returned; <<>> when it returned
               \* a message

vars == <<books, members, last, configured, pc, pre, shown>>

----------------------------------------------------------------------------
(* Bounds of the exploration *)

\* successful issue/return calls explored while the registered entries stay
\* (the total length of the members' history lists and of the books'
\* borrow_history lists)
MaxLog == 2
\* the same, where a single member is explored
MaxLogDeep == 4
\* the same, where the texts handed to the operations vary
MaxLogText == 1
\* the same, where the names of two members vary
MaxLogNames == 2

BookIds == {1, 2}
MemberIds == {101, 102}

None == <<>>
Some(v) == <<v>>

\* texts handed to the operations
Py == <<"P", "y">>
Cpp == <<"C">>
JohnDoe == <<"D", "o">>
ONeil == <<"O", "'", "n">>
Author1 == <<"A", "1">>
Alice == <<"A", "l">>
Bob == <<"B", ".">>
Alice2 == <<"A", "2">>
Empty == <<>>

----------------------------------------------------------------------------
(* Pure helpers *)

Letters ==
  {"A", "B", "C", "D", "E", "F", "G", "H", "I", "J", "K", "L", "M", "N", "O",
   "P", "Q", "R", "S", "T", "U", "V", "W", "X", "Y", "Z", "a", "b", "c", "d",
   "e", "f", "g", "h", "i", "j", "k", "l", "m", "n", "o", "p", "q", "r", "s",
   "t", "u", "v", "w", "x", "y", "z"}

\* the character class [A-Za-z .'-]
NameChars == Letters \cup {" ", ".", "'", "-"}

\* re.fullmatch(r"[A-Za-z .'-]+", s): one or more characters, all in the class
fullmatch(s) == Len(s) > 0 /\ \A i \in 1..Len(s) : s[i] \in NameChars

\* Python truthiness of an Optional[str] argument: None and "" are falsy
Truthy(opt) == opt # None /\ opt[1] # Empty

\* `id in registry` for a dict kept as the sequence of its values in insertion order
HasId(reg, id) == \E i \in 1..Len(reg) : reg[i].entity_id = id

\* position of the entry registry[id]
Idx(reg, id) == CHOOSE i \in 1..Len(reg) : reg[i].entity_id = id

\* del registry[id]
Del(reg, id) ==
  LET i == Idx(reg, id) IN SubSeq(reg, 1, i - 1) \o SubSeq(reg, i + 1, Len(reg))

\* list.remove(x): drops the first occurrence of x
RemoveFirst(s, x) ==
  LET i == CHOOSE k \in 1..Len(s) : s[k] = x /\ \A j \in 1..(k - 1) : s[j] # x
  IN SubSeq(s, 1, i - 1) \o SubSeq(s, i + 1, Len(s))

\* x in list
InList(s, x) == \E i \in 1..Len(s) : s[i] = x

\* number of occurrences of x in list s
Count(s, x) == Cardinality({i \in 1..Len(s) : s[i] = x})

RECURSIVE SumSeq(_)
SumSeq(s) == IF s = <<>> THEN 0 ELSE s[1] + SumSeq(Tail(s))

\* sum(1 for member in members.values() for b in member.borrowed_books
\*     if b.entity_id == book_id)
borrowed_count(mbs, book_id) ==
  SumSeq([i \in 1..Len(mbs) |-> Count(mbs[i].borrowed_books, book_id)])

----------------------------------------------------------------------------
(* Objects and results *)

\* Book(book_id, title, author, copies)
Book(book_id, title, author, copies) ==
  [entity_id |-> book_id, name |-> title, author |-> author, copies |-> copies,
   borrow_history |-> <<>>]

\* Member(member_id, name)
Member(member_id, name) ==
  [entity_id |-> member_id, name |-> name, borrowed_books |-> <<>>,
   history |-> <<>>]

\* a returned message; n1, n2, who, what are the values formatted into it
Msg(text, n1, n2, who, what) ==
  [text |-> text, n1 |-> n1, n2 |-> n2, who |-> who, what |-> what]

Plain(text) == Msg(text, 0, 0, Empty, Empty)

\* the state after a call and the value it returned
Out(bks, mbs, result) == [books |-> bks, members |-> mbs, result |-> result]

Upper ==
  <<"A", "B", "C", "D", "E", "F", "G", "H", "I", "J", "K", "L", "M", "N", "O",
    "P", "Q", "R", "S", "T", "U", "V", "W", "X", "Y", "Z">>
Lower ==
  <<"a", "b", "c", "d", "e", "f", "g", "h", "i", "j", "k", "l", "m", "n", "o",
    "p", "q", "r", "s", "t", "u", "v", "w", "x", "y", "z">>

\* str.lower(): an upper-case letter becomes its lower-case letter, any other
\* character stays
lower(text) ==
  [i \in 1..Len(text) |->
     IF \E k \in 1..Len(Upper) : Upper[k] = text[i]
     THEN Lower[CHOOSE k \in 1..Len(Upper) : Upper[k] = text[i]]
     ELSE text[i]]

\* `keyword in text` for two str
contains(text, keyword) ==
  \E i \in 0..(Len(text) - Len(keyword)) :
    SubSeq(text, i + 1, i + Len(keyword)) = keyword

\* str.join(sep, texts)
RECURSIVE join(_, _)
join(sep, texts) ==
  IF texts = <<>> THEN Empty
  ELSE IF Len(texts) = 1 THEN texts[1]
  ELSE texts[1] \o sep \o join(sep, Tail(texts))

\* Book.display_info(): the format string and the values it interpolates
Book_display_info(book) ==
  Msg("ID: {}, Title: {}, Author: {}, Available Copies: {}",
      book.entity_id, book.copies, book.author, book.name)

\* Member.display_info(), the borrowed Book objects being those of bks
Member_display_info(bks, member) ==
  LET borrowed_titles ==
        [i \in 1..Len(member.borrowed_books) |->
           bks[Idx(bks, member.borrowed_books[i])].name]
      borrowed_str == IF borrowed_titles # <<>>
                      THEN join(<<",", " ">>, borrowed_titles)
                      ELSE <<"N", "o", "n", "e">>
  IN Msg("Member ID: {}, Name: {}, Borrowed Books: {}",
         member.entity_id, 0, member.name, borrowed_str)

\* the value of a call that returned a list, and of one that returned a message
Listed(list) == [result |-> Plain(""), shown |-> list]
Told(text) == [result |-> Plain(text), shown |-> <<>>]

----------------------------------------------------------------------------
(* Member *)

\* one entry of Member.history / Book.borrow_history: the verb and the name
\* formatted into the text
Entry(action, name) == [action |-> action, name |-> name]

\* faulty variant of Book.add_to_history: the new entry replaces the log
add_to_history_replacing(book, action, member_name) ==
  [book EXCEPT !.borrow_history = <<Entry(action, member_name)>>]

\* Book.add_to_history(action, member_name)
add_to_history(book, action, member_name) ==
  [book EXCEPT !.borrow_history = Append(@, Entry(action, member_name))]

\* faulty variant of Member.borrow_book: a book with no copies left is lent
borrow_book_at_zero(bks, mbs, mi, bi) ==
  LET book == bks[bi]
      member == mbs[mi]
  IN IF book.copies >= 0
     THEN Out([bks EXCEPT ![bi] =
                 add_to_history([book EXCEPT !.copies = @ - 1], "borrowed",
                                member.name)],
              [mbs EXCEPT ![mi] =
                 [member EXCEPT
                    !.borrowed_books = Append(@, book.entity_id),
                    !.history = Append(@, Entry("Borrowed", book.name))]],
              Msg("borrowed", 0, 0, member.name, book.name))
     ELSE Out(bks, mbs, Plain("Book is not available"))

\* faulty variant of Member.borrow_book: the book is lent and its copies stay
borrow_book_keeping_copies(bks, mbs, mi, bi) ==
  LET book == bks[bi]
      member == mbs[mi]
  IN IF book.copies > 0
     THEN Out([bks EXCEPT ![bi] =
                 add_to_history(book, "borrowed", member.name)],
              [mbs EXCEPT ![mi] =
                 [member EXCEPT
                    !.borrowed_books = Append(@, book.entity_id),
                    !.history = Append(@, Entry("Borrowed", book.name))]],
              Msg("borrowed", 0, 0, member.name, book.name))
     ELSE Out(bks, mbs, Plain("Book is not available"))

\* Member.borrow_book(book), for the member at position mi and the book at bi
borrow_book(bks, mbs, mi, bi) ==
  LET book == bks[bi]
      member == mbs[mi]
  IN IF book.copies > 0
     THEN Out([bks EXCEPT ![bi] =
                 add_to_history([book EXCEPT !.copies = @ - 1], "borrowed",
                                member.name)],
              [mbs EXCEPT ![mi] =
                 [member EXCEPT
                    !.borrowed_books = Append(@, book.entity_id),
                    !.history = Append(@, Entry("Borrowed", book.name))]],
              Msg("borrowed", 0, 0, member.name, book.name))
     ELSE Out(bks, mbs, Plain("Book is not available"))

\* faulty variant of Member.return_book: the available count is not restored
return_without_restock(bks, mbs, mi, bi) ==
  LET book == bks[bi]
      member == mbs[mi]
  IN IF InList(member.borrowed_books, book.entity_id)
     THEN Out([bks EXCEPT ![bi] =
                 add_to_history(book, "returned", member.name)],
              [mbs EXCEPT ![mi] =
                 [member EXCEPT
                    !.borrowed_books = RemoveFirst(@, book.entity_id),
                    !.history = Append(@, Entry("Returned", book.name))]],
              Msg("returned", 0, 0, member.name, book.name))
     ELSE Out(bks, mbs, Plain("This book was not borrowed by the member"))

\* faulty variant of Member.return_book: the book is taken back from a member
\* when any member holds it
return_for_any_holder(bks, mbs, mi, bi) ==
  LET book == bks[bi]
      member == mbs[mi]
  IN IF borrowed_count(mbs, book.entity_id) > 0
     THEN Out([bks EXCEPT ![bi] =
                 add_to_history([book EXCEPT !.copies = @ + 1], "returned",
                                member.name)],
              [mbs EXCEPT ![mi] =
                 [member EXCEPT
                    !.borrowed_books =
                       IF InList(@, book.entity_id)
                       THEN RemoveFirst(@, book.entity_id) ELSE @,
                    !.history = Append(@, Entry("Returned", book.name))]],
              Msg("returned", 0, 0, member.name, book.name))
     ELSE Out(bks, mbs, Plain("This book was not borrowed by the member"))

\* faulty variant of Member.return_book: the return is not written to the
\* book's log
return_unlogged(bks, mbs, mi, bi) ==
  LET book == bks[bi]
      member == mbs[mi]
  IN IF InList(member.borrowed_books, book.entity_id)
     THEN Out([bks EXCEPT ![bi].copies = @ + 1],
              [mbs EXCEPT ![mi] =
                 [member EXCEPT
                    !.borrowed_books = RemoveFirst(@, book.entity_id),
                    !.history = Append(@, Entry("Returned", book.name))]],
              Msg("returned", 0, 0, member.name, book.name))
     ELSE Out(bks, mbs, Plain("This book was not borrowed by the member"))

\* Member.return_book(book)
member_return_book(bks, mbs, mi, bi) ==
  LET book == bks[bi]
      member == mbs[mi]
  IN IF InList(member.borrowed_books, book.entity_id)
     THEN Out([bks EXCEPT ![bi] =
                 add_to_history([book EXCEPT !.copies = @ + 1], "returned",
                                member.name)],
              [mbs EXCEPT ![mi] =
                 [member EXCEPT
                    !.borrowed_books = RemoveFirst(@, book.entity_id),
                    !.history = Append(@, Entry("Returned", book.name))]],
              Msg("returned", 0, 0, member.name, book.name))
     ELSE Out(bks, mbs, Plain("This book was not borrowed by the member"))

----------------------------------------------------------------------------
(* Library *)

\* faulty variant of add_book: a Book with a registered id replaces the entry
add_book_overwriting(bks, mbs, book) ==
  IF HasId(bks, book.entity_id)
  THEN Out([bks EXCEPT ![Idx(bks, book.entity_id)] = book], mbs,
           Plain("Book ID already exists"))
  ELSE Out(Append(bks, book), mbs, Plain("Book added successfully"))

\* Library.add_book(book)
add_book(bks, mbs, book) ==
  IF HasId(bks, book.entity_id)
  THEN Out(bks, mbs, Plain("Book ID already exists"))
  ELSE Out(Append(bks, book), mbs, Plain("Book added successfully"))

\* faulty variant of the scan of remove_book: it stops after the first member
IsBorrowedByFirst(mbs, book_id) ==
  Len(mbs) > 0 /\ InList(mbs[1].borrowed_books, book_id)

\* the scan of remove_book: some member holds a book with this entity_id
IsBorrowed(mbs, book_id) ==
  \E i \in 1..Len(mbs) : InList(mbs[i].borrowed_books, book_id)

\* faulty variant of remove_book: the borrowed lists are not scanned
remove_book_unchecked(bks, mbs, book_id) ==
  IF ~HasId(bks, book_id)
  THEN Out(bks, mbs, Plain("Book not found"))
  ELSE Out(Del(bks, book_id), mbs, Plain("Book removed successfully"))

\* Library.remove_book(book_id)
remove_book(bks, mbs, book_id) ==
  IF ~HasId(bks, book_id)
  THEN Out(bks, mbs, Plain("Book not found"))
  ELSE IF IsBorrowed(mbs, book_id)
  THEN Out(bks, mbs, Plain("Cannot remove - book is currently borrowed"))
  ELSE Out(Del(bks, book_id), mbs, Plain("Book removed successfully"))

\* faulty variant of the copies branch: copies equal to the borrowed count are
\* refused as well
update_copies_strict(b2, mbs, book_id, copies) ==
  LET i == Idx(b2, book_id)
      c == copies[1]
      n == borrowed_count(mbs, book_id)
  IN IF c < 0
     THEN Out(b2, mbs, Plain("Copies must be a positive integer"))
     ELSE IF c <= n
     THEN Out(b2, mbs, Msg("Cannot set copies", c, n, Empty, Empty))
     ELSE Out([b2 EXCEPT ![i].copies = c], mbs,
              Plain("Book updated successfully"))

\* the copies branch of update_book, entered with the book list b2 that the
\* title and author branches have already written; copies is an int in every
\* call explored, so the isinstance test passes
update_copies(b2, mbs, book_id, copies) ==
  LET i == Idx(b2, book_id)
      c == copies[1]
      n == borrowed_count(mbs, book_id)
  IN IF c < 0
     THEN Out(b2, mbs, Plain("Copies must be a positive integer"))
     ELSE IF c < n
     THEN Out(b2, mbs, Msg("Cannot set copies", c, n, Empty, Empty))
     ELSE Out([b2 EXCEPT ![i].copies = c], mbs,
              Plain("Book updated successfully"))

\* faulty variant of update_book: a title or author that is not None is
\* written, the empty text included
update_book_writing_empty(bks, mbs, book_id, title, author, copies) ==
  IF ~HasId(bks, book_id)
  THEN Out(bks, mbs, Plain("Book not found"))
  ELSE LET i == Idx(bks, book_id)
           b1 == IF title # None THEN [bks EXCEPT ![i].name = title[1]]
                 ELSE bks
       IN IF Truthy(author) /\ ~fullmatch(author[1])
          THEN Out(b1, mbs, Plain("Invalid author name"))
          ELSE LET b2 == IF author # None
                         THEN [b1 EXCEPT ![i].author = author[1]]
                         ELSE b1
               IN IF copies # None
                  THEN update_copies(b2, mbs, book_id, copies)
                  ELSE Out(b2, mbs, Plain("Book updated successfully"))

\* Library.update_book(book_id, title, author, copies)
update_book(bks, mbs, book_id, title, author, copies) ==
  IF ~HasId(bks, book_id)
  THEN Out(bks, mbs, Plain("Book not found"))
  ELSE LET i == Idx(bks, book_id)
           b1 == IF Truthy(title) THEN [bks EXCEPT ![i].name = title[1]]
                 ELSE bks
       IN IF Truthy(author) /\ ~fullmatch(author[1])
          THEN Out(b1, mbs, Plain("Invalid author name"))
          ELSE LET b2 == IF Truthy(author)
                         THEN [b1 EXCEPT ![i].author = author[1]]
                         ELSE b1
               IN IF copies # None
                  THEN update_copies(b2, mbs, book_id, copies)
                  ELSE Out(b2, mbs, Plain("Book updated successfully"))

\* Library.add_member(member)
add_member(bks, mbs, member) ==
  IF HasId(mbs, member.entity_id)
  THEN Out(bks, mbs, Plain("Member ID already exists"))
  ELSE Out(bks, Append(mbs, member), Plain("Member added successfully"))

\* faulty variant of remove_member: the borrowed list is not looked at
remove_member_unchecked(bks, mbs, member_id) ==
  IF ~HasId(mbs, member_id)
  THEN Out(bks, mbs, Plain("Member not found"))
  ELSE Out(bks, Del(mbs, member_id), Plain("Member removed successfully"))

\* Library.remove_member(member_id)
remove_member(bks, mbs, member_id) ==
  IF ~HasId(mbs, member_id)
  THEN Out(bks, mbs, Plain("Member not found"))
  ELSE IF mbs[Idx(mbs, member_id)].borrowed_books # <<>>
  THEN Out(bks, mbs, Plain("Cannot remove member with borrowed books"))
  ELSE Out(bks, Del(mbs, member_id), Plain("Member removed successfully"))

\* faulty variant of update_member: the name is stored without the pattern test
update_member_unvalidated(bks, mbs, member_id, name) ==
  IF ~HasId(mbs, member_id)
  THEN Out(bks, mbs, Plain("Member not found"))
  ELSE IF ~Truthy(name)
  THEN Out(bks, mbs, Plain("No changes made"))
  ELSE Out(bks, [mbs EXCEPT ![Idx(mbs, member_id)].name = name[1]],
           Plain("Member updated successfully"))

\* Library.update_member(member_id, name)
update_member(bks, mbs, member_id, name) ==
  IF ~HasId(mbs, member_id)
  THEN Out(bks, mbs, Plain("Member not found"))
  ELSE IF ~Truthy(name)
  THEN Out(bks, mbs, Plain("No changes made"))
  ELSE IF ~fullmatch(name[1])
  THEN Out(bks, mbs, Plain("Invalid name"))
  ELSE Out(bks, [mbs EXCEPT ![Idx(mbs, member_id)].name = name[1]],
           Plain("Member updated successfully"))

\* faulty variant of issue_book: the book id is looked up before the member id
issue_book_book_first(bks, mbs, member_id, book_id) ==
  IF ~HasId(bks, book_id)
  THEN Out(bks, mbs, Plain("Book not found"))
  ELSE IF ~HasId(mbs, member_id)
  THEN Out(bks, mbs, Plain("Member not found"))
  ELSE borrow_book(bks, mbs, Idx(mbs, member_id), Idx(bks, book_id))

\* Library.issue_book(member_id, book_id)
issue_book(bks, mbs, member_id, book_id) ==
  IF ~HasId(mbs, member_id)
  THEN Out(bks, mbs, Plain("Member not found"))
  ELSE IF ~HasId(bks, book_id)
  THEN Out(bks, mbs, Plain("Book not found"))
  ELSE borrow_book(bks, mbs, Idx(mbs, member_id), Idx(bks, book_id))

\* Library.return_book(member_id, book_id)
return_book(bks, mbs, member_id, book_id) ==
  IF ~HasId(mbs, member_id)
  THEN Out(bks, mbs, Plain("Member not found"))
  ELSE IF ~HasId(bks, book_id)
  THEN Out(bks, mbs, Plain("Book not found"))
  ELSE member_return_book(bks, mbs, Idx(mbs, member_id), Idx(bks, book_id))

\* Library.display_books()
display_books(bks) ==
  IF bks # <<>>
  THEN Listed([i \in 1..Len(bks) |-> Book_display_info(bks[i])])
  ELSE Listed(<<Plain("No books available")>>)

\* Library.display_members()
display_members(bks, mbs) ==
  IF mbs # <<>>
  THEN Listed([i \in 1..Len(mbs) |-> Member_display_info(bks, mbs[i])])
  ELSE Listed(<<Plain("No members available")>>)

\* faulty variant of search_books: the keyword is compared as typed
search_books_as_typed(bks, keyword) ==
  LET hit(book) == \/ contains(lower(book.name), keyword)
                   \/ contains(lower(book.author), keyword)
      found == SelectSeq(bks, hit)
      results == [i \in 1..Len(found) |-> Book_display_info(found[i])]
  IN Listed(IF results # <<>> THEN results
            ELSE <<Plain("No matching books found")>>)

\* Library.search_books(keyword)
search_books(bks, keyword) ==
  LET kw == lower(keyword)
      hit(book) == \/ contains(lower(book.name), kw)
                   \/ contains(lower(book.author), kw)
      found == SelectSeq(bks, hit)
      results == [i \in 1..Len(found) |-> Book_display_info(found[i])]
  IN Listed(IF results # <<>> THEN results
            ELSE <<Plain("No matching books found")>>)

\* faulty variant of or_no_activity: an empty log is returned as it is
or_nothing(lst) == lst

\* `lst or ["No activity yet"]`
or_no_activity(lst) == IF lst # <<>> THEN lst ELSE <<Plain("No activity yet")>>

\* Library.member_history(member_id)
member_history(mbs, member_id) ==
  IF ~HasId(mbs, member_id)
  THEN Told("Member not found")
  ELSE Listed(or_no_activity(mbs[Idx(mbs, member_id)].history))

\* Library.book_history(book_id)
book_history(bks, book_id) ==
  IF ~HasId(bks, book_id)
  THEN Told("Book not found")
  ELSE Listed(or_no_activity(bks[Idx(bks, book_id)].borrow_history))

----------------------------------------------------------------------------
(* State *)

\* the record of the most recent call: the method, its arguments, its result
CallRec(op, member_id, book_id, title, author, copies, name, result) ==
  [op |-> op, member_id |-> member_id, book_id |-> book_id, title |-> title,
   author |-> author, copies |-> copies, name |-> name, result |-> result]

NoCall == CallRec("init", 0, 0, None, None, None, None, Plain(""))

\* what an issue_book call on registered ids found: the copies of the book and
\* the borrowed list of the member before the call, and whether it lent the book
Snap(copies, borrowed_books, issued) ==
  [copies |-> copies, borrowed_books |-> borrowed_books, issued |-> issued]

NoSnap == Snap(0, <<>>, FALSE)

\* total length of the history lists of the registered books / members
BookLogs(bks) == SumSeq([i \in 1..Len(bks) |-> Len(bks[i].borrow_history)])
MemberLogs(mbs) == SumSeq([i \in 1..Len(mbs) |-> Len(mbs[i].history)])

\* the history lists are within the explored length
Bounded(r, cap) == BookLogs(r.books) <= cap /\ MemberLogs(r.members) <= cap

\* Library.__init__: both registries empty
Init ==
  /\ books = <<>>
  /\ members = <<>>
  /\ last = NoCall
  /\ configured = [b \in BookIds |-> 0]
  /\ pc = "idle"
  /\ pre = NoSnap
  /\ shown = <<>>

\* the registries and the call record after a call that returned r
Return(r, call) ==
  /\ books' = r.books
  /\ members' = r.members
  /\ last' = call
  /\ shown' = <<>>

\* a call that is not part of an issue/return sequence
Other == pc' = "idle" /\ pre' = NoSnap

\* the call record and the list after a call that only reads the registries
\* and returned q
Answer(q, call) ==
  /\ UNCHANGED <<books, members, configured>>
  /\ last' = call
  /\ shown' = q.shown

DisplayBooks ==
  LET q == display_books(books)
  IN /\ Answer(q, CallRec("display_books", 0, 0, None, None, None, None,
                          q.result))
     /\ Other

DisplayMembers ==
  LET q == display_members(books, members)
  IN /\ Answer(q, CallRec("display_members", 0, 0, None, None, None, None,
                          q.result))
     /\ Other

MemberHistory(member_id) ==
  LET q == member_history(members, member_id)
  IN /\ Answer(q, CallRec("member_history", member_id, 0, None, None, None,
                          None, q.result))
     /\ Other

\* the keyword is recorded in the name field of the call record
SearchBooks(keyword) ==
  LET q == search_books(books, keyword)
  IN /\ Answer(q, CallRec("search_books", 0, 0, None, None, None,
                          Some(keyword), q.result))
     /\ Other

BookHistory(book_id) ==
  LET q == book_history(books, book_id)
  IN /\ Answer(q, CallRec("book_history", 0, book_id, None, None, None, None,
                          q.result))
     /\ Other

AddBook(book_id, title, author, copies) ==
  LET r == add_book(books, members, Book(book_id, title, author, copies))
  IN /\ Return(r, CallRec("add_book", 0, book_id, Some(title), Some(author),
                          Some(copies), None, r.result))
     /\ configured' = IF r.result.text = "Book added successfully"
                      THEN [configured EXCEPT ![book_id] = copies]
                      ELSE configured
     /\ Other

RemoveBook(book_id) ==
  LET r == remove_book(books, members, book_id)
  IN /\ Return(r, CallRec("remove_book", 0, book_id, None, None, None, None,
                          r.result))
     /\ configured' = IF r.result.text = "Book removed successfully"
                      THEN [configured EXCEPT ![book_id] = 0]
                      ELSE configured
     /\ Other

UpdateBook(book_id, title, author, copies) ==
  LET r == update_book(books, members, book_id, title, author, copies)
  IN /\ Return(r, CallRec("update_book", 0, book_id, title, author, copies,
                          None, r.result))
     /\ configured' = IF r.result.text = "Book updated successfully"
                         /\ copies # None
                      THEN [configured EXCEPT ![book_id] = copies[1]]
                      ELSE configured
     /\ Other

AddMember(member_id, name) ==
  LET r == add_member(books, members, Member(member_id, name))
  IN /\ Return(r, CallRec("add_member", member_id, 0, None, None, None,
                          Some(name), r.result))
     /\ UNCHANGED configured
     /\ Other

RemoveMember(member_id) ==
  LET r == remove_member(books, members, member_id)
  IN /\ Return(r, CallRec("remove_member", member_id, 0, None, None, None,
                          None, r.result))
     /\ UNCHANGED configured
     /\ Other

UpdateMember(member_id, name) ==
  LET r == update_member(books, members, member_id, name)
  IN /\ Return(r, CallRec("update_member", member_id, 0, None, None, None,
                          name, r.result))
     /\ UNCHANGED configured
     /\ Other

IssueBook(member_id, book_id, cap) ==
  LET r == issue_book(books, members, member_id, book_id)
  IN /\ Bounded(r, cap)
     /\ Return(r, CallRec("issue_book", member_id, book_id, None, None, None,
                          None, r.result))
     /\ UNCHANGED configured
     /\ IF HasId(members, member_id) /\ HasId(books, book_id)
        THEN /\ pc' = "issued"
             /\ pre' = Snap(books[Idx(books, book_id)].copies,
                            members[Idx(members, member_id)].borrowed_books,
                            r.result.text = "borrowed")
        ELSE Other

\* the previous call was on the same member and book
SamePair(member_id, book_id) ==
  last.member_id = member_id /\ last.book_id = book_id

ReturnBook(member_id, book_id, cap) ==
  LET r == return_book(books, members, member_id, book_id)
  IN /\ Bounded(r, cap)
     /\ Return(r, CallRec("return_book", member_id, book_id, None, None, None,
                          None, r.result))
     /\ UNCHANGED configured
     /\ IF pc = "issued" /\ SamePair(member_id, book_id)
        THEN pc' = "returned" /\ pre' = pre
        ELSE IF pc = "returned" /\ SamePair(member_id, book_id)
        THEN pc' = "returned2" /\ pre' = NoSnap
        ELSE Other

----------------------------------------------------------------------------
(* Inputs of the operations and the specifications *)

AddCopies == {1, 2}
\* copies of a Book handed to add_book, which takes the Book as it is
RawCopies == {-1, 1, 2}
CopiesArgs == {None, Some(-1), Some(0), Some(1)}

\* the calls on two books and two members, the texts fixed
Next ==
  \/ \E b \in BookIds, c \in AddCopies : AddBook(b, Py, JohnDoe, c)
  \/ \E b \in BookIds : RemoveBook(b)
  \/ \E b \in BookIds, c \in CopiesArgs : UpdateBook(b, None, None, c)
  \/ \E m \in MemberIds : AddMember(m, Alice)
  \/ \E m \in MemberIds : RemoveMember(m)
  \/ \E m \in MemberIds : UpdateMember(m, None)
  \/ \E m \in MemberIds, b \in BookIds : IssueBook(m, b, MaxLog)
  \/ \E m \in MemberIds, b \in BookIds : ReturnBook(m, b, MaxLog)
  \/ DisplayBooks
  \/ DisplayMembers
  \/ \E m \in MemberIds : MemberHistory(m)
  \/ \E b \in BookIds : BookHistory(b)

Spec == Init /\ [][Next]_vars

\* the calls of one member on two books, to a greater depth
NextDeep ==
  \/ \E b \in BookIds, c \in RawCopies : AddBook(b, Py, JohnDoe, c)
  \/ \E b \in BookIds : RemoveBook(b)
  \/ \E b \in BookIds, c \in CopiesArgs : UpdateBook(b, None, None, c)
  \/ AddMember(101, Alice)
  \/ RemoveMember(101)
  \/ UpdateMember(101, None)
  \/ \E b \in BookIds : IssueBook(101, b, MaxLogDeep)
  \/ \E b \in BookIds : ReturnBook(101, b, MaxLogDeep)

SpecDeep == Init /\ [][NextDeep]_vars

\* update_book arguments (title, author, copies) with texts: nothing provided,
\* empty texts, each field alone, and a valid field ahead of a rejected one
UpdateArgs ==
  {<<None, None, None>>,
   <<Some(Empty), Some(Empty), None>>,
   <<Some(Cpp), None, None>>,
   <<None, Some(ONeil), None>>,
   <<None, Some(Author1), None>>,
   <<Some(Cpp), Some(Author1), None>>,
   <<None, Some(ONeil), Some(-1)>>,
   <<Some(Cpp), None, Some(0)>>,
   <<Some(Cpp), Some(ONeil), Some(1)>>}

AddNames == {Alice, Alice2}
NameArgs == {None, Some(Empty), Some(Bob), Some(Alice2)}

\* the calls with varying texts, on two books and one member
NextText ==
  \/ \E b \in BookIds : AddBook(b, Py, JohnDoe, 1)
  \/ \E b \in BookIds : RemoveBook(b)
  \/ \E b \in BookIds, u \in UpdateArgs : UpdateBook(b, u[1], u[2], u[3])
  \/ \E n \in AddNames : AddMember(101, n)
  \/ RemoveMember(101)
  \/ \E n \in NameArgs : UpdateMember(101, n)
  \/ \E b \in BookIds : IssueBook(101, b, MaxLogText)
  \/ \E b \in BookIds : ReturnBook(101, b, MaxLogText)

SpecText == Init /\ [][NextText]_vars

\* search keywords: upper case against a title, lower case against authors
\* and a title, the letters of a title in another order, and the empty keyword
Keywords == {<<"P", "Y">>, <<"o">>, <<"c">>, <<"y", "p">>, Empty}

\* the calls that change the book registry, and the search, on two books
NextSearch ==
  \/ \E b \in BookIds : AddBook(b, Py, JohnDoe, 1)
  \/ \E b \in BookIds : RemoveBook(b)
  \/ \E b \in BookIds, u \in UpdateArgs : UpdateBook(b, u[1], u[2], u[3])
  \/ \E k \in Keywords : SearchBooks(k)

SpecSearch == Init /\ [][NextSearch]_vars

\* the calls with varying update_book arguments, on two books and one member
\* whose name stays
NextFrame ==
  \/ \E b \in BookIds : AddBook(b, Py, JohnDoe, 1)
  \/ \E b \in BookIds : RemoveBook(b)
  \/ \E b \in BookIds, u \in UpdateArgs : UpdateBook(b, u[1], u[2], u[3])
  \/ AddMember(101, Alice)
  \/ RemoveMember(101)
  \/ \E b \in BookIds : IssueBook(101, b, MaxLogText)
  \/ \E b \in BookIds : ReturnBook(101, b, MaxLogText)

SpecFrame == Init /\ [][NextFrame]_vars

\* update_book arguments that rename the book or its author, and one that is
\* rejected
RenameArgs ==
  {<<Some(Cpp), None, None>>,
   <<None, Some(ONeil), None>>,
   <<None, Some(Author1), None>>}

\* the calls with varying names, on one book and two members
NextNames ==
  \/ AddBook(1, Py, JohnDoe, 1)
  \/ RemoveBook(1)
  \/ \E u \in RenameArgs : UpdateBook(1, u[1], u[2], u[3])
  \/ \E m \in MemberIds, n \in AddNames : AddMember(m, n)
  \/ \E m \in MemberIds : RemoveMember(m)
  \/ \E m \in MemberIds, n \in NameArgs : UpdateMember(m, n)
  \/ \E m \in MemberIds : IssueBook(m, 1, MaxLogNames)
  \/ \E m \in MemberIds : ReturnBook(m, 1, MaxLogNames)

SpecNames == Init /\ [][NextNames]_vars

----------------------------------------------------------------------------
(* Properties *)

\* the registered book / member with this id
BookOf(bks, book_id) == bks[Idx(bks, book_id)]
MemberOf(mbs, member_id) == mbs[Idx(mbs, member_id)]

\* the call just made left both registries as they were
SameRegistries == books' = books /\ members' = members

\* C1: every registered book has copies + outstanding loans equal to the copies
\* it was added with or that the last successful update_book set.
C1_CopiesPlusLoans ==
  \A i \in 1..Len(books) :
    books[i].copies + borrowed_count(members, books[i].entity_id)
      = configured[books[i].entity_id]

\* C2: no member holds the same book twice in its borrowed list.
C2_NoDuplicateLoans ==
  \A i \in 1..Len(members) : \A b \in BookIds :
    Count(members[i].borrowed_books, b) <= 1

\* C3: an update_book call that returns a validation failure (invalid author,
\* invalid copies, copies below the borrowed count) leaves the state unchanged.
C3_FailedUpdateChangesNothing ==
  [][(/\ last'.op = "update_book"
      /\ last'.result.text \in {"Invalid author name",
                                "Copies must be a positive integer",
                                "Cannot set copies"})
     => SameRegistries]_vars

\* the book and the member of the issue/return sequence in progress
SeqBook == BookOf(books, last.book_id)
SeqMember == MemberOf(members, last.member_id)

\* two borrowed lists hold the same books the same number of times
SameLoans(s, t) == \A b \in BookIds : Count(s, b) = Count(t, b)

\* C4 as stated: after issue_book(m, b) immediately followed by
\* return_book(m, b), whatever issue_book returned, the copies of b and the
\* borrowed list of m are what they were before the issue_book call.
C4_RoundTripAnyOutcome ==
  pc = "returned" =>
    /\ SeqBook.copies = pre.copies
    /\ SeqMember.borrowed_books = pre.borrowed_books

\* C4 amended: after an issue_book(m, b) that lent the book, immediately
\* followed by return_book(m, b), the copies of b are what they were before the
\* issue_book call and m holds the same books, each as many times as before.
C4_RoundTripAfterLending ==
  (pc = "returned" /\ pre.issued) =>
    /\ SeqBook.copies = pre.copies
    /\ SameLoans(SeqMember.borrowed_books, pre.borrowed_books)

\* a lent book was handed back at once by a member who already held loans, and
\* the borrowed list came back in another order
C4_Witness ==
  /\ pc = "returned"
  /\ pre.issued
  /\ pre.borrowed_books # <<>>
  /\ SeqMember.borrowed_books # pre.borrowed_books

\* C5: after issue_book(m, b) and return_book(m, b), a second return_book(m, b)
\* reports that the book was not borrowed by the member and changes no state.
C5_SecondReturnRefused ==
  [][(pc = "returned" /\ pc' = "returned2")
     => (/\ last'.result.text = "This book was not borrowed by the member"
         /\ SameRegistries)]_vars

\* C6: the outstanding loans of a registered book never exceed the copies it
\* was added with or that the last successful update_book set.
C6_LoansWithinConfigured ==
  \A i \in 1..Len(books) :
    borrowed_count(members, books[i].entity_id)
      <= configured[books[i].entity_id]

\* C7: every registered book has copies >= 0.
C7_CopiesNeverNegative == \A i \in 1..Len(books) : books[i].copies >= 0

\* the call just made was update_book(b, copies=c) alone, c >= 0, b registered
CopiesUpdate ==
  /\ last'.op = "update_book"
  /\ last'.title = None /\ last'.author = None
  /\ last'.copies # None /\ last'.copies[1] >= 0
  /\ HasId(books, last'.book_id)

\* C8: update_book(b, copies=c) with c >= 0 on a registered book is refused,
\* naming c and the outstanding loans of b, exactly when c is below them, and
\* then changes nothing; otherwise it succeeds and the copies of b become c,
\* also for c = 0, after which issue_book on b reports the book unavailable.
C8_CopiesCheck ==
  [][/\ CopiesUpdate =>
          LET b == last'.book_id
              c == last'.copies[1]
              n == borrowed_count(members, b)
          IN /\ (c < n) <=> (last'.result.text = "Cannot set copies")
             /\ (c < n) => /\ last'.result.n1 = c
                           /\ last'.result.n2 = n
                           /\ SameRegistries
             /\ (c >= n) =>
                  /\ last'.result.text = "Book updated successfully"
                  /\ books' = [books EXCEPT ![Idx(books, b)].copies = c]
                  /\ members' = members
     /\ (/\ last.op = "update_book" /\ last.copies = Some(0)
         /\ last.result.text = "Book updated successfully"
         /\ last'.op = "issue_book" /\ last'.book_id = last.book_id
         /\ HasId(members, last'.member_id))
        => (last'.result.text = "Book is not available" /\ SameRegistries)
    ]_vars

\* an update to 1 copy was refused while two loans of the book were outstanding
C8_Witness ==
  /\ last.op = "update_book"
  /\ last.result = Msg("Cannot set copies", 1, 2, Empty, Empty)
  /\ borrowed_count(members, last.book_id) = 2

\* the registry without the entry of this id, the others in their order
Without(reg, id) == SelectSeq(reg, LAMBDA e : e.entity_id # id)

\* C9: remove_book on an unregistered id reports not found; on a book with an
\* outstanding loan of any member it reports that the book is borrowed; both
\* change nothing.  On a registered book without loans it deletes that book
\* alone.  No other call takes a book out of the registry.
C9_RemoveBookGuard ==
  [][/\ last'.op = "remove_book" =>
          LET b == last'.book_id
              text == last'.result.text
          IN IF ~HasId(books, b)
             THEN text = "Book not found" /\ SameRegistries
             ELSE IF borrowed_count(members, b) >= 1
             THEN /\ text = "Cannot remove - book is currently borrowed"
                  /\ SameRegistries
             ELSE /\ text = "Book removed successfully"
                  /\ books' = Without(books, b)
                  /\ members' = members
     /\ \A b \in BookIds :
          (HasId(books, b) /\ ~HasId(books', b))
            => /\ last'.op = "remove_book" /\ last'.book_id = b
               /\ borrowed_count(members, b) = 0
    ]_vars

\* remove_book was refused for a book that only the second member holds
C9_Witness ==
  /\ last.op = "remove_book"
  /\ last.result.text = "Cannot remove - book is currently borrowed"
  /\ Len(members) = 2
  /\ ~InList(members[1].borrowed_books, last.book_id)
  /\ InList(members[2].borrowed_books, last.book_id)

\* C10: remove_member on an unregistered id reports not found; on a member
\* with a non-empty borrowed list it reports the borrowed books; both change
\* nothing.  On a member without loans it deletes that member alone and leaves
\* every book as it is.
C10_RemoveMemberGuard ==
  [][last'.op = "remove_member" =>
       LET m == last'.member_id
           text == last'.result.text
       IN IF ~HasId(members, m)
          THEN text = "Member not found" /\ SameRegistries
          ELSE IF MemberOf(members, m).borrowed_books # <<>>
          THEN /\ text = "Cannot remove member with borrowed books"
               /\ SameRegistries
          ELSE /\ text = "Member removed successfully"
               /\ members' = Without(members, m)
               /\ books' = books
    ]_vars

\* a member was removed after borrowing a book and returning it
C10_Witness ==
  /\ last.op = "remove_member"
  /\ last.result.text = "Member removed successfully"
  /\ members = <<>>
  /\ \E i \in 1..Len(books) :
       /\ Len(books[i].borrow_history) = 2
       /\ books[i].borrow_history[2].action = "returned"
       /\ books[i].copies = configured[books[i].entity_id]

\* C11: issue_book(m, b) on registered ids with copies(b) > 0 takes one copy,
\* appends b to m's borrowed list, appends one entry to m's history and one to
\* b's history and reports the loan; with copies(b) = 0 it reports that the
\* book is not available and changes nothing.
C11_IssueTransition ==
  [][(/\ last'.op = "issue_book"
      /\ HasId(members, last'.member_id)
      /\ HasId(books, last'.book_id))
     => LET mi == Idx(members, last'.member_id)
            bi == Idx(books, last'.book_id)
        IN IF books[bi].copies > 0
           THEN /\ last'.result = Msg("borrowed", 0, 0, members[mi].name,
                                      books[bi].name)
                /\ books' = [books EXCEPT
                     ![bi].copies = @ - 1,
                     ![bi].borrow_history =
                        Append(@, Entry("borrowed", members[mi].name))]
                /\ members' = [members EXCEPT
                     ![mi].borrowed_books = Append(@, last'.book_id),
                     ![mi].history =
                        Append(@, Entry("Borrowed", books[bi].name))]
           ELSE (books[bi].copies = 0)
                  => /\ last'.result.text = "Book is not available"
                     /\ SameRegistries]_vars

\* issue_book was refused for a registered member and a book without copies
\* that another member holds
C11_Witness ==
  /\ last.op = "issue_book"
  /\ last.result.text = "Book is not available"
  /\ HasId(members, last.member_id) /\ HasId(books, last.book_id)
  /\ BookOf(books, last.book_id).copies = 0
  /\ MemberOf(members, last.member_id).borrowed_books = <<>>
  /\ borrowed_count(members, last.book_id) = 1

\* C12: issue_book and return_book report that the member is not found whenever
\* the member id is unregistered, that the book is not found when only the book
\* id is unregistered, and change nothing in both cases; any other outcome
\* means both ids are registered.
C12_LookupFirst ==
  [][last'.op \in {"issue_book", "return_book"}
     => IF ~HasId(members, last'.member_id)
        THEN last'.result.text = "Member not found" /\ SameRegistries
        ELSE IF ~HasId(books, last'.book_id)
        THEN last'.result.text = "Book not found" /\ SameRegistries
        ELSE last'.result.text \notin {"Member not found", "Book not found"}
    ]_vars

\* issue_book reported the member as not found although the book id is
\* unregistered too, while another member and another book are registered
C12_Witness ==
  /\ last.op = "issue_book"
  /\ last.result.text = "Member not found"
  /\ ~HasId(books, last.book_id)
  /\ Len(books) = 1 /\ Len(members) = 1

\* C13: add_book and add_member with a registered id report that the id exists
\* and change nothing; with a fresh id they append the given entity to the
\* registry and report success.
C13_DuplicateIdRefused ==
  [][/\ last'.op = "add_book" =>
          IF HasId(books, last'.book_id)
          THEN last'.result.text = "Book ID already exists" /\ SameRegistries
          ELSE /\ last'.result.text = "Book added successfully"
               /\ books' = Append(books, Book(last'.book_id, last'.title[1],
                                              last'.author[1],
                                              last'.copies[1]))
               /\ members' = members
     /\ last'.op = "add_member" =>
          IF HasId(members, last'.member_id)
          THEN last'.result.text = "Member ID already exists" /\ SameRegistries
          ELSE /\ last'.result.text = "Member added successfully"
               /\ members' = Append(members, Member(last'.member_id,
                                                    last'.name[1]))
               /\ books' = books
    ]_vars

\* add_book was refused for the id of a book on loan, the Book handed in
\* differing from the registered one
C13_Witness ==
  /\ last.op = "add_book"
  /\ last.result.text = "Book ID already exists"
  /\ BookOf(books, last.book_id).borrow_history # <<>>
  /\ BookOf(books, last.book_id).copies # last.copies[1]
  /\ borrowed_count(members, last.book_id) = 1

\* C14: add_member refuses a name outside the pattern (letters, spaces, ".",
\* "'", "-"), so every registered member's name matches the pattern.
C14_MemberNamesMatchPattern ==
  \A i \in 1..Len(members) : fullmatch(members[i].name)

\* C15: update_member(id, name) reports that the member is not found for an
\* unregistered id; else that no changes were made when the name is omitted or
\* empty; else that the name is invalid when it has a character outside the
\* pattern; in these three cases nothing changes. Otherwise it reports success
\* and only the name of that member changes.
C15_UpdateMemberOutcomes ==
  [][last'.op = "update_member"
     => LET m == last'.member_id
            name == last'.name
            text == last'.result.text
        IN IF ~HasId(members, m)
           THEN text = "Member not found" /\ SameRegistries
           ELSE IF name = None \/ name = Some(Empty)
           THEN text = "No changes made" /\ SameRegistries
           ELSE IF \E i \in 1..Len(name[1]) : name[1][i] \notin NameChars
           THEN text = "Invalid name" /\ SameRegistries
           ELSE /\ text = "Member updated successfully"
                /\ books' = books
                /\ members' = [members EXCEPT ![Idx(members, m)].name = name[1]]
    ]_vars

\* a member holding a loan was renamed while another member is registered
C15_Witness ==
  /\ last.op = "update_member"
  /\ last.result.text = "Member updated successfully"
  /\ Len(members) = 2
  /\ MemberOf(members, last.member_id).name = last.name[1]
  /\ MemberOf(members, last.member_id).borrowed_books # <<>>
  /\ MemberOf(members, last.member_id).history # <<>>

\* the list a query returned when the registry or log it reads is empty
OnlySentinel(text) == shown = <<Plain(text)>>

\* C16: display_books, display_members, and member_history / book_history on a
\* registered id never return an empty list: they return one line per
\* registered entity in insertion order, or the log in append order, and the
\* single sentinel line when the registry or the log is empty; member_history /
\* book_history on an unregistered id report that it is not found.
C16_SentinelResults ==
  /\ last.op = "display_books" =>
       /\ Len(shown) >= 1
       /\ IF books = <<>> THEN OnlySentinel("No books available")
          ELSE /\ Len(shown) = Len(books)
               /\ \A i \in 1..Len(books) :
                    /\ shown[i].n1 = books[i].entity_id
                    /\ shown[i].what = books[i].name
                    /\ shown[i].who = books[i].author
                    /\ shown[i].n2 = books[i].copies
  /\ last.op = "display_members" =>
       /\ Len(shown) >= 1
       /\ IF members = <<>> THEN OnlySentinel("No members available")
          ELSE /\ Len(shown) = Len(members)
               /\ \A i \in 1..Len(members) :
                    /\ shown[i].n1 = members[i].entity_id
                    /\ shown[i].who = members[i].name
                    /\ (shown[i].what = <<"N", "o", "n", "e">>)
                         <=> (members[i].borrowed_books = <<>>)
  /\ last.op = "member_history" =>
       IF ~HasId(members, last.member_id)
       THEN last.result.text = "Member not found" /\ shown = <<>>
       ELSE /\ Len(shown) >= 1
            /\ IF MemberOf(members, last.member_id).history = <<>>
               THEN OnlySentinel("No activity yet")
               ELSE shown = MemberOf(members, last.member_id).history
  /\ last.op = "book_history" =>
       IF ~HasId(books, last.book_id)
       THEN last.result.text = "Book not found" /\ shown = <<>>
       ELSE /\ Len(shown) >= 1
            /\ IF BookOf(books, last.book_id).borrow_history = <<>>
               THEN OnlySentinel("No activity yet")
               ELSE shown = BookOf(books, last.book_id).borrow_history

\* book_history returned the sentinel for a registered book without a log while
\* the other registered book has one
C16_Witness ==
  /\ last.op = "book_history"
  /\ OnlySentinel("No activity yet")
  /\ Len(books) = 2
  /\ \E i \in 1..2 : Len(books[i].borrow_history) = 2

\* two characters that are equal, or the two cases of one letter
SameLetter(c, d) ==
  c = d \/ \E k \in 1..26 : {c, d} = {Upper[k], Lower[k]}

\* the keyword occurs in the text at some position, letter case ignored
Occurs(keyword, text) ==
  \E i \in 1..(Len(text) + 1) :
    /\ i + Len(keyword) - 1 <= Len(text)
    /\ \A j \in 1..Len(keyword) : SameLetter(text[i + j - 1], keyword[j])

\* C17: search_books(keyword) returns one summary for each registered book
\* whose title or author contains the keyword, letter case ignored, in
\* registry order; the single sentinel line when no book matches; and it
\* leaves the registries unchanged.
C17_SearchResult ==
  [][last'.op = "search_books"
     => LET keyword == last'.name[1]
            Matches(book) == \/ Occurs(keyword, book.name)
                             \/ Occurs(keyword, book.author)
            matching == SelectSeq(books, Matches)
        IN /\ SameRegistries
           /\ IF matching = <<>>
              THEN shown' = <<Plain("No matching books found")>>
              ELSE /\ Len(shown') = Len(matching)
                   /\ \A i \in 1..Len(matching) :
                        /\ shown'[i].n1 = matching[i].entity_id
                        /\ shown'[i].what = matching[i].name
                        /\ shown'[i].who = matching[i].author
                        /\ shown'[i].n2 = matching[i].copies
    ]_vars

\* an upper-case keyword found only the second of two registered books, by its
\* title
C17_Witness ==
  /\ last.op = "search_books"
  /\ last.name = Some(<<"P", "Y">>)
  /\ Len(books) = 2
  /\ Len(shown) = 1
  /\ shown[1].n1 = books[2].entity_id
  /\ books[2].name = Py /\ books[1].name = Cpp

\* C18: return_book(m, b) on registered ids succeeds exactly when m's borrowed
\* list contains b; it then adds one copy to b, takes one reference to b out
\* of m's list and appends one entry to m's history and one to b's history.
\* Otherwise it reports that the member did not borrow the book and changes
\* nothing, whoever else holds b.
C18_ReturnTransition ==
  [][(/\ last'.op = "return_book"
      /\ HasId(members, last'.member_id)
      /\ HasId(books, last'.book_id))
     => LET b == last'.book_id
            mi == Idx(members, last'.member_id)
            bi == Idx(books, b)
            held == members[mi].borrowed_books
        IN IF \E k \in 1..Len(held) : held[k] = b
           THEN /\ last'.result = Msg("returned", 0, 0, members[mi].name,
                                      books[bi].name)
                /\ books' = [books EXCEPT
                     ![bi].copies = @ + 1,
                     ![bi].borrow_history =
                        Append(@, Entry("returned", members[mi].name))]
                /\ Len(members') = Len(members)
                /\ \A i \in 1..Len(members) :
                     i # mi => members'[i] = members[i]
                /\ members'[mi].entity_id = members[mi].entity_id
                /\ members'[mi].name = members[mi].name
                /\ members'[mi].history =
                     Append(members[mi].history,
                            Entry("Returned", books[bi].name))
                /\ Len(members'[mi].borrowed_books) = Len(held) - 1
                /\ \A x \in BookIds :
                     Count(members'[mi].borrowed_books, x)
                       = Count(held, x) - (IF x = b THEN 1 ELSE 0)
           ELSE /\ last'.result.text
                     = "This book was not borrowed by the member"
                /\ SameRegistries]_vars

\* return_book was refused for a member who holds another book while the
\* other member holds the book
C18_Witness ==
  /\ last.op = "return_book"
  /\ last.result.text = "This book was not borrowed by the member"
  /\ Len(members) = 2
  /\ MemberOf(members, last.member_id).borrowed_books # <<>>
  /\ \E i \in 1..2 :
       /\ members[i].entity_id # last.member_id
       /\ InList(members[i].borrowed_books, last.book_id)

\* the value of a text field after an update handed arg: the text of arg
\* when one is given and it is not empty, the old value otherwise
Provided(arg, old) == IF arg = None \/ arg = Some(Empty) THEN old ELSE arg[1]

\* C19: a successful update_book(id, title, author, copies) changes only the
\* provided fields of that book: an omitted field, and a title or author
\* given as the empty text, keep their values; the id and the log of the
\* book, the other books and the members are unchanged. update_book on an
\* unregistered id reports that the book is not found and changes nothing.
C19_UpdateBookFrame ==
  [][last'.op = "update_book"
     => IF ~HasId(books, last'.book_id)
        THEN last'.result.text = "Book not found" /\ SameRegistries
        ELSE (last'.result.text = "Book updated successfully")
             => LET bi == Idx(books, last'.book_id)
                IN /\ members' = members
                   /\ books' = [books EXCEPT
                        ![bi].name = Provided(last'.title, @),
                        ![bi].author = Provided(last'.author, @),
                        ![bi].copies = IF last'.copies = None THEN @
                                       ELSE last'.copies[1]]
    ]_vars

\* title, author and copies of a book on loan, with a log, were updated while
\* a second book is registered
C19_Witness ==
  /\ last.op = "update_book"
  /\ last.result.text = "Book updated successfully"
  /\ last.title = Some(Cpp) /\ last.author = Some(ONeil)
  /\ last.copies = Some(1)
  /\ Len(books) = 2
  /\ BookOf(books, last.book_id).name = Cpp
  /\ BookOf(books, last.book_id).borrow_history # <<>>
  /\ borrowed_count(members, last.book_id) = 1

\* the log new is the log old with exactly n entries appended
Grown(old, new, n) ==
  Len(new) = Len(old) + n /\ SubSeq(new, 1, Len(old)) = old

\* the call just made was an issue_book or return_book that succeeded
Transacted == /\ last'.op \in {"issue_book", "return_book"}
              /\ last'.result.text \in {"borrowed", "returned"}

\* C20: while a book or member stays registered its log only grows at the
\* end: a successful issue_book / return_book appends exactly one entry to the
\* log of its member and one to the log of its book, and every other call or
\* outcome leaves every log as it was.
C20_LogsAppendOnly ==
  [][/\ \A b \in BookIds :
          (HasId(books, b) /\ HasId(books', b))
          => Grown(BookOf(books, b).borrow_history,
                   BookOf(books', b).borrow_history,
                   IF Transacted /\ last'.book_id = b THEN 1 ELSE 0)
     /\ \A m \in MemberIds :
          (HasId(members, m) /\ HasId(members', m))
          => Grown(MemberOf(members, m).history,
                   MemberOf(members', m).history,
                   IF Transacted /\ last'.member_id = m THEN 1 ELSE 0)
    ]_vars

\* a member with two log entries was renamed, and the book's two entries keep
\* the name the member had at the time
C20_Witness ==
  /\ last.op = "update_member"
  /\ last.result.text = "Member updated successfully"
  /\ Len(MemberOf(members, last.member_id).history) = 2
  /\ HasId(books, 1)
  /\ Len(BookOf(books, 1).borrow_history) = 2
  /\ \A i \in 1..2 : BookOf(books, 1).borrow_history[i].name # last.name[1]

\* every book reference in the borrowed list of a registered member is the id
\* of a registered book
NoDanglingLoans ==
  \A i \in 1..Len(members) :
    \A k \in 1..Len(members[i].borrowed_books) :
      HasId(books, members[i].borrowed_books[k])

\* a return_book call by a registered member for a book in its borrowed list
\* reports the return
HeldLoanReturns ==
  (/\ last'.op = "return_book"
   /\ HasId(members, last'.member_id)
   /\ InList(MemberOf(members, last'.member_id).borrowed_books,
             last'.book_id))
  => last'.result.text = "returned"

\* C21: in every reachable state every book in the borrowed list of a
\* registered member is registered, and return_book(m, b) for a loan that m
\* holds always succeeds, never reporting that the book is not found.
C21_NoDanglingLoans == []NoDanglingLoans /\ [][HeldLoanReturns]_vars

\* a member holding both books returned one of them, and the book of the loan
\* it still holds is registered
C21_Witness ==
  /\ last.op = "return_book"
  /\ last.result.text = "returned"
  /\ Len(books) = 2
  /\ BookOf(books, last.book_id).copies = configured[last.book_id]
  /\ \E b \in BookIds :
       /\ b # last.book_id
       /\ InList(MemberOf(members, last.member_id).borrowed_books, b)
       /\ HasId(books, b)

\* copies(b) + outstanding loans of b, for a registered book id
Stock(bks, mbs, b) == BookOf(bks, b).copies + borrowed_count(mbs, b)

\* the call just made was an update_book of b that stored a copies value
CopiesStored(b) ==
  /\ last'.op = "update_book"
  /\ last'.book_id = b
  /\ last'.copies # None
  /\ last'.result.text = "Book updated successfully"

\* C22: for a registered book b, copies(b) + outstanding loans of b is changed
\* by no call other than a successful update_book(b, copies=...), and is the
\* copies value of the Book when add_book registers it.
C22_StockConserved ==
  [][\/ SameRegistries
     \/ \A b \in BookIds :
          HasId(books', b)
          => IF HasId(books, b)
             THEN CopiesStored(b)
                  \/ Stock(books', members', b) = Stock(books, members, b)
             ELSE /\ last'.op = "add_book"
                  /\ Stock(books', members', b) = last'.copies[1]
    ]_vars

\* issue_book lent the last copy of a book added with two copies, both
\* members now holding it
C22_Witness ==
  /\ last.op = "issue_book"
  /\ last.result.text = "borrowed"
  /\ BookOf(books, last.book_id).copies = 0
  /\ borrowed_count(members, last.book_id) = 2
  /\ Len(members) = 2
  /\ \A i \in 1..2 : members[i].borrowed_books = <<last.book_id>>

\* number of entries of a log with this action word
Logged(log, action) ==
  Cardinality({k \in 1..Len(log) : log[k].action = action})

\* C23: for every registered member, the "Borrowed" entries minus the
\* "Returned" entries of its log are the loans it holds; for every registered
\* book, the "borrowed" entries minus the "returned" entries of its log are
\* its outstanding loans over the registered members.
C23_LogsReconcile ==
  /\ \A i \in 1..Len(members) :
       Logged(members[i].history, "Borrowed")
         - Logged(members[i].history, "Returned")
       = Len(members[i].borrowed_books)
  /\ \A i \in 1..Len(books) :
       Logged(books[i].borrow_history, "borrowed")
         - Logged(books[i].borrow_history, "returned")
       = borrowed_count(members, books[i].entity_id)

\* the only member was removed after borrowing and returning a book: the log
\* of the book keeps both entries and no registered member holds it
C23_Witness ==
  /\ last.op = "remove_member"
  /\ last.result.text = "Member removed successfully"
  /\ \E i \in 1..Len(books) :
       /\ Logged(books[i].borrow_history, "borrowed") = 1
       /\ Logged(books[i].borrow_history, "returned") = 1
       /\ borrowed_count(members, books[i].entity_id) = 0

====
